---- MODULE Spec2Model ----
(***************************************************************************)
(* Model of eval_ch.py: the command-line evaluation script (Chainer).      *)
(*                                                                         *)
(* main() is a straight-line program; every action below is one statement  *)
(* group of main() or test(), and pc is the position of the single thread. *)
(* Calls into libraries (argparse, logging, the model zoo, the dataset     *)
(* providers, the iterator, the metric functions) either return or raise;  *)
(* a raise is a nondeterministic outcome of the action that makes the      *)
(* call, and it ends the run (nothing in the script catches anything).     *)
(* Assertions are taken as enabled (the script is not run under -O).       *)
(***************************************************************************)
EXTENDS Integers, Sequences, FiniteSets, TLC

VARIABLES
    argv,           \* the command line of the run (input of parse_args)
    args,           \* the namespace parse_args returned, NoArgs before
    environ,        \* os.environ["MXNET_CUDNN_AUTOTUNE_DEFAULT"]
    environ0,       \* its value when the process started (history)
    envWrites,      \* number of assignments the run made to it (history)
    pc,             \* position of the run
    failure,        \* kind of the exception that ended the run, "" if none
    stages,         \* the stages invoked so far, in order (history)
    log,            \* the lines given to logging.info by the script
    metainfoCalls,  \* number of get_dataset_metainfo calls (history)
    ds_metainfo,    \* main()'s DatasetMetaInfo object, NoMeta before line 188
    train,          \* chainer global_config.train
    net,            \* the network prepare_model returned, NoNet before
    valCalls,       \* number of get_val_data_source calls (history)
    testCalls,      \* number of get_test_data_source calls (history)
    test_data,      \* the DataSource main() holds, NoData before
    testArg,        \* the DataSource test() was called with, NoData before
    extended_log,   \* test()'s extended_log parameter
    pos,            \* samples the iterator has delivered so far
    y,              \* predictions collected from out_values
    t,              \* labels collected from rest_values
    top1_acc,       \* F.accuracy(...).data as <<correct, N>>, <<>> before
    top5_acc        \* top_k_accuracy(...).data as <<correct, N>>, <<>> before

vars == <<argv, args, environ, environ0, envWrites, pc, failure, stages, log,
          metainfoCalls, ds_metainfo, train, net, valCalls, testCalls,
          test_data, testArg, extended_log, pos, y, t, top1_acc, top5_acc>>

-----------------------------------------------------------------------------
(* Bounds                                                                  *)

\* longest dataset a provider hands to main()
MaxDsLen == 2
\* longest dataset test() is run on when it is checked on its own
MaxSamples == 4

(* Inputs                                                                  *)

\* --dataset: one classification and one segmentation dataset of the help
\* text of line 102
DatasetNames == {"ImageNet1K", "VOC2012"}
\* --resume values, as character sequences: empty, blank, a path with a
\* trailing blank
ResumeValues == {<< >>, <<" ">>, <<"w", " ">>}
\* --data-subset values: the two documented ones and another string
SubsetValues == {"val", "test", "other"}
\* --batch-size values
BatchSizes == {1, 2}
\* initial values of the environment variable
EnvValues == {"unset", "1"}

ArgSpace ==
    [dataset : DatasetNames,
     use_pretrained : BOOLEAN,
     resume : ResumeValues,
     data_subset : SubsetValues,
     batch_size : BatchSizes,
     disable_cudnn_autotune : BOOLEAN]

NoArgs == [none |-> TRUE]
NoMeta == [none |-> TRUE]
NoNet == [none |-> TRUE]
NoData == [none |-> TRUE]

\* Score vectors the predictor returns, over classes 0..5 (entry c+1 is the
\* score of class c).  First vector: class 2 is first, class 0 ties with
\* class 3 for the fifth place.  Second: class 2 is second, class 0 last.
\* Third: classes 0 and 2 tie for the first place.
ScoreVectors ==
    {<<4, 5, 9, 4, 6, 7>>,
     <<1, 9, 7, 2, 3, 4>>,
     <<9, 3, 9, 8, 7, 6>>}
Labels == {0, 2}
Samples == [scores : ScoreVectors, label : Labels]

RECURSIVE SeqsUpTo(_, _)
SeqsUpTo(S, n) ==
    IF n = 0 THEN {<< >>}
    ELSE LET shorter == SeqsUpTo(S, n - 1)
         IN  shorter \cup {Append(s, x) : s \in {q \in shorter : Len(q) = n - 1}, x \in S}

-----------------------------------------------------------------------------
(* Pure helpers                                                            *)

IsBlank(c) == c = " "

\* str.lstrip() / str.rstrip()
RECURSIVE lstrip(_)
lstrip(s) == IF s # << >> /\ IsBlank(Head(s)) THEN lstrip(Tail(s)) ELSE s
RECURSIVE rstrip(_)
rstrip(s) ==
    IF s # << >> /\ IsBlank(s[Len(s)]) THEN rstrip(SubSeq(s, 1, Len(s) - 1)) ELSE s
\* variant of strip: the string is used as given
strip_identity(s) == s
\* str.strip(): drop leading and trailing whitespace
strip(s) == rstrip(lstrip(s))

\* get_dataset_metainfo(dataset_name): a fresh descriptor of the named
\* dataset; root_dir_path is not set until update(args)
MlType(name) == IF name = "VOC2012" THEN "imgseg" ELSE "imgcls"
get_dataset_metainfo(name) ==
    [ml_type |-> MlType(name), root_dir_path |-> "None"]

\* DatasetMetaInfo.update(args): copies the dataset arguments into the
\* descriptor
update(meta, a) == [meta EXCEPT !.root_dir_path = "args.data_dir"]

\* variant of SegAssert: the second assertion is missing
SegAssertBatchOnly(meta, a) ==
    (meta.ml_type # "imgseg") \/ (a.batch_size = 1)
\* the two assertions of lines 190-191
SegAssert(meta, a) ==
    /\ (meta.ml_type # "imgseg") \/ (a.batch_size = 1)
    /\ (meta.ml_type # "imgseg") \/ a.disable_cudnn_autotune

\* variant of CheckpointAssert: nothing is asserted
CheckpointAssertNone(a) == TRUE
\* the assertion of line 222 (a non-empty string is truthy)
CheckpointAssert(a) == a.use_pretrained \/ strip(a.resume) # << >>

\* variant of DataSubsetIsVal: only "test" selects the test provider
DataSubsetNotTest(a) == a.data_subset # "test"
\* the condition of line 207
DataSubsetIsVal(a) == a.data_subset = "val"

-----------------------------------------------------------------------------
(* Metrics                                                                 *)

Classes(scores) == 0 .. (Len(scores) - 1)
ScoreOf(scores, c) == scores[c + 1]

\* numpy argmax: the first index holding the maximum
argmax(scores) ==
    CHOOSE c \in Classes(scores) :
        /\ \A j \in Classes(scores) : ScoreOf(scores, j) <= ScoreOf(scores, c)
        /\ \A j \in Classes(scores) :
               ScoreOf(scores, j) = ScoreOf(scores, c) => c <= j

\* chainer.functions.accuracy(y, t): the rate of argmax(y[i]) = t[i],
\* as <<matches, N>>
accuracy(yy, tt) ==
    <<Cardinality({i \in 1 .. Len(yy) : argmax(yy[i]) = tt[i]}), Len(yy)>>

\* position of class c in argsort(scores): ascending, equal scores in index
\* order
ArgsortPos(scores, c) ==
    Cardinality({j \in Classes(scores) :
        \/ ScoreOf(scores, j) < ScoreOf(scores, c)
        \/ ScoreOf(scores, j) = ScoreOf(scores, c) /\ j < c})

\* top_k_accuracy(y, t, k): the rate of t[i] being among the last k entries
\* of argsort(y[i]), as <<matches, N>>
top_k_accuracy(yy, tt, k) ==
    <<Cardinality({i \in 1 .. Len(yy) :
          ArgsortPos(yy[i], tt[i]) >= Len(yy[i]) - k}), Len(yy)>>

\* the k of line 161
TopK == 5

\* lines 162-163: 1.0 - acc, on <<numerator, denominator>>
ErrOf(acc) == <<acc[2] - acc[1], acc[2]>>

\* "{:.4f}".format(v): v rounded to ten-thousandths, halves to even
Fmt4(v) ==
    LET n == v[1] * 10000
        q == n \div v[2]
        r == n % v[2]
    IN  IF 2 * r > v[2] \/ (2 * r = v[2] /\ q % 2 = 1) THEN q + 1 ELSE q

-----------------------------------------------------------------------------
(* The run                                                                 *)

Raise(kind) ==
    /\ pc' = "failed"
    /\ failure' = kind

Init ==
    /\ argv \in ArgSpace
    /\ args = NoArgs
    /\ environ0 \in EnvValues
    /\ environ = environ0
    /\ envWrites = 0
    /\ pc = "start"
    /\ failure = ""
    /\ stages = << >>
    /\ log = << >>
    /\ metainfoCalls = 0
    /\ ds_metainfo = NoMeta
    /\ train = TRUE
    /\ net = NoNet
    /\ valCalls = 0
    /\ testCalls = 0
    /\ test_data = NoData
    /\ testArg = NoData
    /\ extended_log = FALSE
    /\ pos = 0
    /\ y = << >>
    /\ t = << >>
    /\ top1_acc = << >>
    /\ top5_acc = << >>

testVars == <<testArg, extended_log, pos, y, t, top1_acc, top5_acc>>

\* line 176 and parse_args(): the dataset's descriptor is looked up to add
\* its arguments to the parser, then the command line is parsed; a missing
\* --model or an unparseable value exits with the usage message
ParseArgs ==
    /\ pc = "start"
    /\ stages' = Append(stages, "parse_args")
    /\ metainfoCalls' = metainfoCalls + 1
    /\ \/ /\ args' = argv
          /\ pc' = "env"
          /\ UNCHANGED failure
       \/ /\ Raise("usage")
          /\ UNCHANGED args
    /\ UNCHANGED <<argv, environ, environ0, envWrites, log, ds_metainfo, train,
                   net, valCalls, testCalls, test_data>>
    /\ UNCHANGED testVars

\* variant of SetEnv: the assignment is not guarded by the flag
SetEnvAlways ==
    /\ pc = "env"
    /\ environ' = "0"
    /\ envWrites' = envWrites + 1
    /\ pc' = "logging"
    /\ UNCHANGED <<argv, args, environ0, failure, stages, log, metainfoCalls,
                   ds_metainfo, train, net, valCalls, testCalls, test_data>>
    /\ UNCHANGED testVars
\* lines 178-179
SetEnv ==
    /\ pc = "env"
    /\ IF args.disable_cudnn_autotune
       THEN /\ environ' = "0"
            /\ envWrites' = envWrites + 1
       ELSE UNCHANGED <<environ, envWrites>>
    /\ pc' = "logging"
    /\ UNCHANGED <<argv, args, environ0, failure, stages, log, metainfoCalls,
                   ds_metainfo, train, net, valCalls, testCalls, test_data>>
    /\ UNCHANGED testVars

\* variant of InitLogging: initialize_logging is not called
InitLoggingSkipped ==
    /\ pc = "logging"
    /\ pc' = "metainfo"
    /\ UNCHANGED <<argv, args, environ, environ0, envWrites, failure, stages,
                   log, metainfoCalls, ds_metainfo, train, net, valCalls,
                   testCalls, test_data>>
    /\ UNCHANGED testVars
\* lines 181-186; the log directory or file may be impossible to create
InitLogging ==
    /\ pc = "logging"
    /\ stages' = Append(stages, "initialize_logging")
    /\ \/ /\ pc' = "metainfo"
          /\ UNCHANGED failure
       \/ Raise("resource")
    /\ UNCHANGED <<argv, args, environ, environ0, envWrites, log,
                   metainfoCalls, ds_metainfo, train, net, valCalls, testCalls,
                   test_data>>
    /\ UNCHANGED testVars

\* line 188
GetMetainfo ==
    /\ pc = "metainfo"
    /\ metainfoCalls' = metainfoCalls + 1
    /\ ds_metainfo' = get_dataset_metainfo(args.dataset)
    /\ pc' = "update"
    /\ UNCHANGED <<argv, args, environ, environ0, envWrites, failure, stages,
                   log, train, net, valCalls, testCalls, test_data>>
    /\ UNCHANGED testVars

\* lines 189-191
UpdateMetainfo ==
    /\ pc = "update"
    /\ ds_metainfo' = update(ds_metainfo, args)
    /\ IF SegAssert(ds_metainfo', args)
       THEN /\ pc' = "model"
            /\ UNCHANGED failure
       ELSE Raise("assert_seg")
    /\ UNCHANGED <<argv, args, environ, environ0, envWrites, stages, log,
                   metainfoCalls, train, net, valCalls, testCalls, test_data>>
    /\ UNCHANGED testVars

\* prepare_model(...): the network the model zoo builds, with the weights
\* it was asked to load
NetOf(a) ==
    [use_pretrained |-> a.use_pretrained,
     pretrained_model_file_path |-> strip(a.resume)]

\* lines 193-203; the model name may be unknown or the checkpoint file
\* missing, and the network may lack "classes" or "in_size"
PrepareModel ==
    /\ pc = "model"
    /\ train' = FALSE
    /\ stages' = Append(stages, "prepare_model")
    /\ \/ /\ net' = NetOf(args)
          /\ pc' = "data"
          /\ UNCHANGED failure
       \/ /\ Raise("resource")
          /\ UNCHANGED net
       \/ /\ net' = NetOf(args)
          /\ Raise("assert_attr")
    /\ UNCHANGED <<argv, args, environ, environ0, envWrites, log,
                   metainfoCalls, ds_metainfo, valCalls, testCalls, test_data>>
    /\ UNCHANGED testVars

\* the DataSource a provider returns for a dataset: iterator, length,
\* predictor class
DataSource(provider, samples, batch_size) ==
    [provider |-> provider,
     iterator |-> samples,
     ds_len |-> Len(samples),
     batch_size |-> batch_size]

\* variant of CreateDataSource: the provider writes into the descriptor
CreateDataSourceTouchingMeta ==
    /\ pc = "data"
    /\ valCalls' = valCalls + 1
    /\ stages' = Append(stages, "get_val_data_source")
    /\ ds_metainfo' = [ds_metainfo EXCEPT !.root_dir_path = "val"]
    /\ \E samples \in SeqsUpTo(Samples, MaxDsLen) :
           test_data' = DataSource("val", samples, args.batch_size)
    /\ pc' = "check"
    /\ UNCHANGED <<argv, args, environ, environ0, envWrites, failure, log,
                   metainfoCalls, train, net, testCalls>>
    /\ UNCHANGED testVars
\* lines 207-217; reading the dataset may fail
CreateDataSource ==
    /\ pc = "data"
    /\ IF DataSubsetIsVal(args)
       THEN /\ valCalls' = valCalls + 1
            /\ stages' = Append(stages, "get_val_data_source")
            /\ UNCHANGED testCalls
       ELSE /\ testCalls' = testCalls + 1
            /\ stages' = Append(stages, "get_test_data_source")
            /\ UNCHANGED valCalls
    /\ \/ /\ \E samples \in SeqsUpTo(Samples, MaxDsLen) :
                 test_data' =
                     DataSource(IF DataSubsetIsVal(args) THEN "val" ELSE "test",
                                samples, args.batch_size)
          /\ pc' = "check"
          /\ UNCHANGED failure
       \/ /\ Raise("resource")
          /\ UNCHANGED test_data
    /\ UNCHANGED <<argv, args, environ, environ0, envWrites, log,
                   metainfoCalls, ds_metainfo, train, net>>
    /\ UNCHANGED testVars

\* variant of CheckAndCallTest: test() is called before the assertion
CheckAndCallTestEarly ==
    /\ pc = "check"
    /\ testArg' = test_data
    /\ extended_log' = TRUE
    /\ stages' = Append(stages, "test")
    /\ IF CheckpointAssert(args)
       THEN /\ pc' = "test_setup"
            /\ UNCHANGED failure
       ELSE Raise("assert_ckpt")
    /\ UNCHANGED <<argv, args, environ, environ0, envWrites, log,
                   metainfoCalls, ds_metainfo, train, net, valCalls, testCalls,
                   test_data, pos, y, t, top1_acc, top5_acc>>
\* lines 222-228: the assertion, then the call of test()
CheckAndCallTest ==
    /\ pc = "check"
    /\ IF CheckpointAssert(args)
       THEN /\ testArg' = test_data
            /\ extended_log' = TRUE
            /\ stages' = Append(stages, "test")
            /\ pc' = "test_setup"
            /\ UNCHANGED failure
       ELSE /\ Raise("assert_ckpt")
            /\ UNCHANGED <<testArg, extended_log, stages>>
    /\ UNCHANGED <<argv, args, environ, environ0, envWrites, log,
                   metainfoCalls, ds_metainfo, train, net, valCalls, testCalls,
                   test_data, pos, y, t, top1_acc, top5_acc>>

-----------------------------------------------------------------------------
(* test()                                                                  *)

mainVars == <<argv, args, environ, environ0, envWrites, metainfoCalls,
              ds_metainfo, train, net, valCalls, testCalls, test_data>>

AfterIteration(n) == IF n = testArg.ds_len THEN "test_top1" ELSE "test_iter"

\* lines 133-141: the predictor is built and, calc_weight_count being True
\* at the only call, the parameter count is logged
TestSetup ==
    /\ pc = "test_setup"
    /\ \/ /\ log' = Append(log, [kind |-> "Model"])
          /\ pc' = AfterIteration(pos)
          /\ UNCHANGED failure
       \/ /\ Raise("resource")
          /\ UNCHANGED log
    /\ UNCHANGED <<stages, testArg, extended_log, pos, y, t, top1_acc, top5_acc>>
    /\ UNCHANGED mainVars

Min(a, b) == IF a < b THEN a ELSE b

\* the samples of one batch of the iterator, from position p
Batch(p) ==
    SubSeq(testArg.iterator, p + 1, Min(p + testArg.batch_size, testArg.ds_len))

Scores(samples) == [i \in 1 .. Len(samples) |-> samples[i].scores]
LabelsOf(samples) == [i \in 1 .. Len(samples) |-> samples[i].label]
Reverse(s) == [i \in 1 .. Len(s) |-> s[Len(s) + 1 - i]]

\* variant of TestIterate: the labels of a batch are collected in reverse
TestIterateSwapped ==
    /\ pc = "test_iter"
    /\ pos < testArg.ds_len
    /\ y' = y \o Scores(Batch(pos))
    /\ t' = t \o Reverse(LabelsOf(Batch(pos)))
    /\ pos' = pos + Len(Batch(pos))
    /\ pc' = AfterIteration(pos')
    /\ UNCHANGED <<failure, stages, log, testArg, extended_log, top1_acc, top5_acc>>
    /\ UNCHANGED mainVars
\* lines 143-153, one batch: the predictor is applied to the batch, its
\* outputs go to out_values and the labels to rest_values, in order of
\* arrival; reading the batch or predicting may fail
TestIterate ==
    /\ pc = "test_iter"
    /\ pos < testArg.ds_len
    /\ \/ /\ y' = y \o Scores(Batch(pos))
          /\ t' = t \o LabelsOf(Batch(pos))
          /\ pos' = pos + Len(Batch(pos))
          /\ pc' = AfterIteration(pos')
          /\ UNCHANGED failure
       \/ /\ Raise("io")
          /\ UNCHANGED <<y, t, pos>>
    /\ UNCHANGED <<stages, log, testArg, extended_log, top1_acc, top5_acc>>
    /\ UNCHANGED mainVars

\* the line of lines 165-170
ResultLine(acc1, acc5) ==
    [kind |-> "Test",
     top1 |-> Fmt4(ErrOf(acc1)),
     top5 |-> Fmt4(ErrOf(acc5)),
     raw |-> IF extended_log THEN <<ErrOf(acc1), ErrOf(acc5)>> ELSE << >>]

\* variant of TestTop1: the top-1 error is logged as soon as it is known
TestTop1Logging ==
    /\ pc = "test_top1"
    /\ \/ /\ y # << >>
          /\ top1_acc' = accuracy(y, t)
          /\ log' = Append(log, ResultLine(top1_acc', top1_acc'))
          /\ pc' = "test_top5"
          /\ UNCHANGED failure
       \/ /\ Raise("metric")
          /\ UNCHANGED <<top1_acc, log>>
    /\ UNCHANGED <<stages, testArg, extended_log, pos, y, t, top5_acc>>
    /\ UNCHANGED mainVars
\* lines 155-157; the arrays of an empty dataset are rejected by the
\* function's type check
TestTop1 ==
    /\ pc = "test_top1"
    /\ \/ /\ y # << >>
          /\ top1_acc' = accuracy(y, t)
          /\ pc' = "test_top5"
          /\ UNCHANGED failure
       \/ /\ Raise("metric")
          /\ UNCHANGED top1_acc
    /\ UNCHANGED <<stages, log, testArg, extended_log, pos, y, t, top5_acc>>
    /\ UNCHANGED mainVars

\* lines 158-161
TestTop5 ==
    /\ pc = "test_top5"
    /\ \/ /\ top5_acc' = top_k_accuracy(y, t, TopK)
          /\ pc' = "test_log"
          /\ UNCHANGED failure
       \/ /\ Raise("metric")
          /\ UNCHANGED top5_acc
    /\ UNCHANGED <<stages, log, testArg, extended_log, pos, y, t, top1_acc>>
    /\ UNCHANGED mainVars

\* lines 162-172
TestLog ==
    /\ pc = "test_log"
    /\ log' = Append(Append(log, ResultLine(top1_acc, top5_acc)),
                     [kind |-> "Time cost"])
    /\ stages' = Append(stages, "result")
    /\ pc' = "done"
    /\ UNCHANGED <<failure, testArg, extended_log, pos, y, t, top1_acc, top5_acc>>
    /\ UNCHANGED mainVars

-----------------------------------------------------------------------------
(* Specifications                                                          *)

Next ==
    \/ ParseArgs
    \/ SetEnv
    \/ InitLogging
    \/ GetMetainfo
    \/ UpdateMetainfo
    \/ PrepareModel
    \/ CreateDataSource
    \/ CheckAndCallTest
    \/ TestSetup
    \/ TestIterate
    \/ TestTop1
    \/ TestTop5
    \/ TestLog

Spec == Init /\ [][Next]_vars

\* test() on its own: called with any DataSource of up to MaxSamples
\* samples and either log format
InitTest ==
    /\ argv \in {a \in ArgSpace : a.dataset = "ImageNet1K" /\ a.use_pretrained
                                  /\ a.resume = << >> /\ a.data_subset = "val"
                                  /\ ~a.disable_cudnn_autotune /\ a.batch_size = 1}
    /\ args = argv
    /\ environ0 = "unset"
    /\ environ = environ0
    /\ envWrites = 0
    /\ pc = "test_setup"
    /\ failure = ""
    /\ stages = <<"test">>
    /\ log = << >>
    /\ metainfoCalls = 0
    /\ ds_metainfo = NoMeta
    /\ train = FALSE
    /\ net = NetOf(args)
    /\ valCalls = 0
    /\ testCalls = 0
    /\ \E samples \in SeqsUpTo(Samples, MaxSamples), b \in BatchSizes :
           test_data = DataSource("val", samples, b)
    /\ testArg = test_data
    /\ extended_log \in BOOLEAN
    /\ pos = 0
    /\ y = << >>
    /\ t = << >>
    /\ top1_acc = << >>
    /\ top5_acc = << >>

NextTest ==
    \/ TestSetup
    \/ TestIterate
    \/ TestTop1
    \/ TestTop5
    \/ TestLog

SpecTest == InitTest /\ [][NextTest]_vars

-----------------------------------------------------------------------------
(* Vocabulary of the properties                                            *)

Invoked(stage) == \E i \in 1 .. Len(stages) : stages[i] = stage
TestLines == {i \in 1 .. Len(log) : log[i].kind = "Test"}
DataSourceCalls == valCalls + testCalls

\* --resume holds a path: some character of it is not a blank
ResumeGiven(a) == \E i \in 1 .. Len(a.resume) : a.resume[i] # " "
\* the run supplies neither --use-pretrained nor a --resume path
Neither(a) == ~a.use_pretrained /\ ~ResumeGiven(a)

\* positions of main() before the segmentation assertions have passed
BeforeModel == {"start", "env", "logging", "metainfo", "update"}
\* positions inside test() and after it
InTest == {"test_setup", "test_iter", "test_top1", "test_top5", "test_log", "done"}

\* the label of sample s scores above every other class / no class scores
\* above it
StrictTop1(s) ==
    \A j \in Classes(s.scores) \ {s.label} :
        ScoreOf(s.scores, j) < ScoreOf(s.scores, s.label)
WeakTop1(s) ==
    \A j \in Classes(s.scores) : ScoreOf(s.scores, j) <= ScoreOf(s.scores, s.label)
\* fewer than k other classes score at least as high as the label of s /
\* fewer than k classes score above it
StrictTopKOf(s, k) ==
    Cardinality({j \in Classes(s.scores) \ {s.label} :
        ScoreOf(s.scores, j) >= ScoreOf(s.scores, s.label)}) < k
WeakTopKOf(s, k) ==
    Cardinality({j \in Classes(s.scores) :
        ScoreOf(s.scores, j) > ScoreOf(s.scores, s.label)}) < k
CountOf(ds, P(_)) == Cardinality({i \in 1 .. Len(ds) : P(ds[i])})
StrictTop5(s) == StrictTopKOf(s, TopK)
WeakTop5(s) == WeakTopKOf(s, TopK)

\* shown is the four-decimal rendering (in ten-thousandths) of 1 - c/n
Shows(shown, c, n) ==
    LET d == shown * n - (n - c) * 10000
    IN  2 * d <= n /\ 2 * (0 - d) <= n

-----------------------------------------------------------------------------
(* Properties                                                              *)

\* C1: a run on a segmentation dataset with batch_size # 1 or without
\* --disable-cudnn-autotune never gets as far as prepare_model: it stops
\* before the model loader, and if it got through parsing and logging it
\* stopped with the segmentation assertion; whenever prepare_model has been
\* invoked for a segmentation dataset, batch_size = 1 and autotune is
\* disabled.
C1_SegmentationPrecondition ==
    /\ (Invoked("prepare_model") /\ ds_metainfo.ml_type = "imgseg")
           => (args.batch_size = 1 /\ args.disable_cudnn_autotune)
    /\ (/\ MlType(argv.dataset) = "imgseg"
        /\ (argv.batch_size # 1 \/ ~argv.disable_cudnn_autotune))
           => /\ pc \in BeforeModel \cup {"failed"}
              /\ ~Invoked("prepare_model")
              /\ net = NoNet
              /\ pc = "failed" => failure \in {"usage", "resource", "assert_seg"}
              /\ (pc = "failed" /\ ds_metainfo # NoMeta) => failure = "assert_seg"
C1_Witness ==
    /\ pc = "failed"
    /\ failure = "assert_seg"
    /\ args.batch_size = 1
    /\ ~args.disable_cudnn_autotune
    /\ ~Invoked("prepare_model")

\* C2: a run with neither --use-pretrained nor a --resume path never enters
\* test() and logs no error metric; once its DataSource exists the only way
\* it ends is the assertion failure of line 222.
C2_NoCheckpointNoEvaluation ==
    Neither(argv) =>
        /\ ~Invoked("test")
        /\ pc \notin InTest
        /\ testArg = NoData
        /\ TestLines = {}
        /\ (pc = "failed" /\ test_data # NoData) => failure = "assert_ckpt"
C2_Witness ==
    /\ Neither(argv)
    /\ pc = "failed"
    /\ failure = "assert_ckpt"
    /\ log = << >>

\* C3 as stated: the assertion of line 222 lets a run through exactly when
\* one of --use-pretrained and a --resume path is supplied and not both.
C3_ExactlyOne ==
    /\ Invoked("test") => (args.use_pretrained # ResumeGiven(args))
    /\ failure = "assert_ckpt" => ~(args.use_pretrained # ResumeGiven(args))
\* C3 amended: the assertion of line 222 lets a run through exactly when at
\* least one of --use-pretrained and a --resume value with a non-blank
\* character is supplied; a run supplying both is let through.
C3_AtLeastOne ==
    /\ Invoked("test") => (args.use_pretrained \/ ResumeGiven(args))
    /\ failure = "assert_ckpt" => ~(args.use_pretrained \/ ResumeGiven(args))
C3_Witness ==
    /\ Invoked("test")
    /\ args.use_pretrained
    /\ ResumeGiven(args)
    /\ net.pretrained_model_file_path = <<"w">>

\* C4: with --data-subset val the validation provider is invoked and the
\* test provider is not, with any other value the test provider is invoked
\* and the validation provider is not; a run that reaches line 207 invokes
\* exactly one of them exactly once, and the DataSource test() receives is
\* the one that provider returned.
C4_DataSubsetSelectsProvider ==
    /\ DataSourceCalls <= 1
    /\ (pc \in {"check"} \cup InTest \/ test_data # NoData) => DataSourceCalls = 1
    /\ argv.data_subset = "val" => testCalls = 0
    /\ argv.data_subset # "val" => valCalls = 0
    /\ test_data # NoData =>
           test_data.provider = (IF argv.data_subset = "val" THEN "val" ELSE "test")
    /\ testArg # NoData => testArg = test_data
    /\ Invoked("test") => testArg # NoData
C4_Witness ==
    /\ argv.data_subset = "other"
    /\ testCalls = 1
    /\ valCalls = 0
    /\ testArg # NoData
    /\ testArg.provider = "test"

\* C5: when test() has logged its result for the N >= 1 samples the
\* iterator delivered, the logged top-1 error is 1 - c1/N and the logged
\* top-5 error is 1 - c5/N to four decimals, c1 counting the samples whose
\* own label scores highest and c5 those whose own label is among the 5
\* highest scores (a sample whose label ties at the boundary may count
\* either way); 4 samples of label 2, all in the top 5 and 2 of them first,
\* give 0.5000 and 0.0000.
C5_ErrorRates ==
    pc = "done" =>
        LET ds == testArg.iterator
            n == Len(ds)
            line == log[CHOOSE i \in TestLines : TRUE]
        IN  /\ Cardinality(TestLines) = 1
            /\ n >= 1
            /\ Len(y) = n /\ Len(t) = n
            /\ \E c \in CountOf(ds, StrictTop1) .. CountOf(ds, WeakTop1) :
                   /\ Shows(line.top1, c, n)
                   /\ extended_log => line.raw[1] = <<n - c, n>>
            /\ \E c \in CountOf(ds, StrictTop5) .. CountOf(ds, WeakTop5) :
                   /\ Shows(line.top5, c, n)
                   /\ extended_log => line.raw[2] = <<n - c, n>>
            /\ (/\ n = 4
                /\ \A i \in 1 .. n : ds[i].label = 2 /\ StrictTop5(ds[i])
                /\ CountOf(ds, StrictTop1) = 2
                /\ CountOf(ds, WeakTop1) = 2)
                   => (line.top1 = 5000 /\ line.top5 = 0)
C5_Witness ==
    /\ pc = "done"
    /\ Len(testArg.iterator) = 4
    /\ testArg.batch_size = 2
    /\ \A i \in 1 .. 4 : testArg.iterator[i].label = 2 /\ StrictTop5(testArg.iterator[i])
    /\ CountOf(testArg.iterator, StrictTop1) = 2
    /\ CountOf(testArg.iterator, WeakTop1) = 2
    /\ \E i \in TestLines : log[i].top1 = 5000 /\ log[i].top5 = 0

\* C6: the result line is in the log only when the whole iterator has been
\* consumed and both metrics have been computed; a run that failed has
\* logged no error value, and after the failure it takes no further step.
C6_NoPartialResults ==
    /\ TestLines # {} =>
           /\ pc = "done"
           /\ pos = testArg.ds_len
           /\ Len(y) = testArg.ds_len
           /\ top1_acc # << >>
           /\ top5_acc # << >>
    /\ pc = "failed" => (TestLines = {} /\ ~ENABLED Next)
C6_Witness ==
    /\ pc = "failed"
    /\ failure = "metric"
    /\ top1_acc # << >>
    /\ pos = 2
    /\ TestLines = {}

\* C7: the stages of a run are invoked in the order parse_args,
\* initialize_logging, prepare_model, one data-source provider, test,
\* result logging, each once; a finished run has performed all six.
StageOrders ==
    {<<"parse_args", "initialize_logging", "prepare_model", d, "test", "result">> :
        d \in {"get_val_data_source", "get_test_data_source"}}
C7_StageOrder ==
    /\ \E full \in StageOrders : stages = SubSeq(full, 1, Len(stages))
    /\ pc = "done" => stages \in StageOrders
    /\ pc \in InTest => Len(stages) >= 5
    /\ pc = "check" => Len(stages) = 4
    /\ pc = "data" => Len(stages) = 3
C7_Witness ==
    /\ pc = "done"
    /\ stages \in StageOrders

\* C8 as stated: a run supplying neither --use-pretrained nor a --resume
\* path has no model loaded and no DataSource produced.
C8_AssertBeforeLoading ==
    Neither(argv) =>
        /\ ~Invoked("prepare_model")
        /\ net = NoNet
        /\ DataSourceCalls = 0
        /\ test_data = NoData
\* C8 amended: the assertion on the checkpoint source fails only after
\* prepare_model and a data-source provider have been invoked (the network
\* is built with no weights to load and a DataSource is produced), and
\* before test() is invoked.
C8_AssertAfterLoadingBeforeTest ==
    failure = "assert_ckpt" =>
        /\ Neither(args)
        /\ Invoked("prepare_model")
        /\ net = [use_pretrained |-> FALSE, pretrained_model_file_path |-> << >>]
        /\ DataSourceCalls = 1
        /\ test_data # NoData
        /\ ~Invoked("test")
        /\ testArg = NoData
        /\ log = << >>
C8_Witness ==
    /\ failure = "assert_ckpt"
    /\ args.resume = <<" ">>
    /\ net # NoNet
    /\ test_data # NoData
    /\ test_data.ds_len > 0

\* C9 as stated: get_dataset_metainfo is called once in a run and the
\* descriptor it returned is never modified afterwards.
C9_ResolvedOnceThenReadOnly ==
    [][/\ metainfoCalls' <= 1
       /\ ds_metainfo # NoMeta => ds_metainfo' = ds_metainfo]_vars
\* C9 amended: get_dataset_metainfo is called twice in a run that reaches
\* line 188 (in parse_args and in main); the descriptor main() holds is
\* changed by its update(args) call of line 189 and by no step after it.
C9_ResolvedTwiceUpdatedOnce ==
    [][/\ metainfoCalls' <= 2
       /\ ds_metainfo' # NoMeta => metainfoCalls' = 2
       /\ pc = "update" => ds_metainfo' = update(ds_metainfo, args)
       /\ (ds_metainfo # NoMeta /\ pc # "update") => ds_metainfo' = ds_metainfo]_vars
C9_Witness ==
    /\ pc = "done"
    /\ metainfoCalls = 2
    /\ ds_metainfo = update(get_dataset_metainfo(args.dataset), args)
    /\ ds_metainfo # get_dataset_metainfo(args.dataset)

\* C10: the run assigns "0" to MXNET_CUDNN_AUTOTUNE_DEFAULT exactly when
\* --disable-cudnn-autotune was parsed, and otherwise leaves the variable as
\* it found it; the assignment precedes logging initialisation, the
\* segmentation assertions and model loading, and outlives a failed
\* precondition.
C10_AutotuneEnvironment ==
    /\ envWrites <= 1
    /\ pc \in {"start", "env"} =>
           (envWrites = 0 /\ ~Invoked("initialize_logging") /\ ds_metainfo = NoMeta)
    /\ args = NoArgs => (envWrites = 0 /\ environ = environ0)
    /\ (args # NoArgs /\ pc # "env") =>
           IF args.disable_cudnn_autotune
           THEN environ = "0" /\ envWrites = 1
           ELSE environ = environ0 /\ envWrites = 0
    /\ (Invoked("initialize_logging") \/ ds_metainfo # NoMeta \/ net # NoNet) =>
           (argv.disable_cudnn_autotune => environ = "0")
C10_Witness ==
    /\ pc = "failed"
    /\ failure = "assert_seg"
    /\ args.disable_cudnn_autotune
    /\ environ0 = "1"
    /\ environ = "0"
    /\ net = NoNet

====
